---- MODULE Spec2Model ----
(***************************************************************************)
(* mooc-grader: the graded form (access/types/forms.py) and the grading    *)
(* actions with their output parsers (grader/actions.py).                  *)
(*                                                                         *)
(* Python strings are sequences of one-character strings, so that split,   *)
(* join, slicing, startswith, strip and int() are computed the way the     *)
(* code computes them.                                                     *)
(***************************************************************************)
EXTENDS Integers, Sequences, FiniteSets, TLC

VARIABLES
    schema,        \* the exercise configuration the forms are built over
    gfields,       \* exercise["fieldgroups"][g]["_fields"], per group
    widget_ro,     \* 'readonly' in the default widget_attrs dict of add_field
    forms,         \* the GradedForm objects alive, per request slot
    req,           \* the last form operation: its input and its outcome
    default_args,  \* the default args dict of _collect_args
    call,          \* the last action invocation: its input and its outcome
    parse          \* the last parser run: its input and its outcome

vars == <<schema, gfields, widget_ro, forms, req, default_args, call, parse>>

form_vars   == <<schema, gfields, widget_ro, forms, req>>
action_vars == <<default_args, call>>

(***************************************************************************)
(* Python built-ins on strings and lists                                   *)
(***************************************************************************)

Range(s) == {s[k] : k \in 1..Len(s)}

\* l[n:]
Drop(l, n) == IF n >= Len(l) THEN <<>> ELSE SubSeq(l, n + 1, Len(l))

\* l.startswith(p)
StartsWith(l, p) == Len(l) >= Len(p) /\ SubSeq(l, 1, Len(p)) = p

\* s.split(sep) for a one-character sep: always at least one piece
RECURSIVE SplitAcc(_, _, _)
SplitAcc(s, sep, cur) ==
    IF s = <<>> THEN <<cur>>
    ELSE IF Head(s) = sep THEN <<cur>> \o SplitAcc(Tail(s), sep, <<>>)
    ELSE SplitAcc(Tail(s), sep, Append(cur, Head(s)))

Split(s, sep) == SplitAcc(s, sep, <<>>)

\* sep.join(parts)
RECURSIVE Join(_, _)
Join(parts, sep) ==
    IF parts = <<>> THEN <<>>
    ELSE IF Len(parts) = 1 THEN parts[1]
    ELSE parts[1] \o <<sep>> \o Join(Tail(parts), sep)

\* s.strip() on blanks
RECURSIVE LStrip(_)
LStrip(s) == IF s # <<>> /\ Head(s) = " " THEN LStrip(Tail(s)) ELSE s

RECURSIVE RStrip(_)
RStrip(s) ==
    IF s # <<>> /\ s[Len(s)] = " " THEN RStrip(SubSeq(s, 1, Len(s) - 1)) ELSE s

Strip(s) == RStrip(LStrip(s))

DigitChars == <<"0", "1", "2", "3", "4", "5", "6", "7", "8", "9">>

DigitVal(c) == (CHOOSE k \in 1..10 : DigitChars[k] = c) - 1

IsDigits(s) == s # <<>> /\ \A k \in 1..Len(s) : s[k] \in Range(DigitChars)

RECURSIVE DigitsVal(_)
DigitsVal(s) ==
    IF s = <<>> THEN 0 ELSE 10 * DigitsVal(SubSeq(s, 1, Len(s) - 1)) + DigitVal(s[Len(s)])

\* int(s): blanks around, an optional sign, then digits; anything else is a
\* ValueError
IntOk(s) ==
    LET t == Strip(s)
    IN  \/ IsDigits(t)
        \/ t # <<>> /\ Head(t) \in {"+", "-"} /\ IsDigits(Tail(t))

IntVal(s) ==
    LET t == Strip(s)
    IN  IF Head(t) = "-" THEN 0 - DigitsVal(Tail(t))
        ELSE IF Head(t) = "+" THEN DigitsVal(Tail(t))
        ELSE DigitsVal(t)

\* "%d" % n and str(n) for an integer
RECURSIVE NatStr(_)
NatStr(n) ==
    IF n < 10 THEN <<DigitChars[n + 1]>> ELSE NatStr(n \div 10) \o <<DigitChars[(n % 10) + 1]>>

IntStr(n) == IF n < 0 THEN <<"-">> \o NatStr(0 - n) ELSE NatStr(n)

\* lst[i]: a negative index counts from the end; IndexError outside
IndexOk(lst, i) == 0 - Len(lst) <= i /\ i < Len(lst)

\* op on the value of v, v being evaluated once
Let1(v, op(_)) == CHOOSE r \in {op(x) : x \in {v}} : TRUE

\* a dict is a function on its keys
EmptyDict == <<>>

DictSet(d, k, v) == [x \in (DOMAIN d) \cup {k} |-> IF x = k THEN v ELSE d[x]]

\* all sequences over S of length at most n
RECURSIVE SeqsUpTo(_, _)
SeqsUpTo(S, n) ==
    IF n = 0 THEN {<<>>}
    ELSE LET shorter == SeqsUpTo(S, n - 1)
         IN  shorter \cup {Append(s, x) : s \in {t \in shorter : Len(t) = n - 1}, x \in S}

SeqsOfLen(S, n) == {s \in SeqsUpTo(S, n) : Len(s) = n}

(***************************************************************************)
(* access/types/forms.py: the exercise configuration                       *)
(*                                                                         *)
(* A field configuration holds the keys the form reads: type, points,      *)
(* options (correct, hint), rows (correct_options, points, hint), and for  *)
(* a text field its answer: "correct", "regex" or neither, with its hint.  *)
(* A regex is a literal text here, so p.match is a prefix test.  Titles,   *)
(* labels and the other texts that are only rendered are left out.         *)
(***************************************************************************)

Opt(correct, hint) == [correct |-> correct, hint |-> hint]

Row(correct_options, points, hint) ==
    [correct_options |-> correct_options, points |-> points, hint |-> hint]

NoAnswer == [kind |-> "none", text |-> <<>>]

FieldConfig(type, points, options, rows, answer, hint) ==
    [type |-> type, points |-> points, options |-> options, rows |-> rows,
     answer |-> answer, hint |-> hint]

Group(has_fields, fields, pick_randomly, group_errors) ==
    [has_fields |-> has_fields, fields |-> fields,
     pick_randomly |-> pick_randomly, group_errors |-> group_errors]

NoPick == -1

\* two groups that both pick one field of two; no secret of its own
SchemaA ==
    [secret |-> "",
     fieldgroups |-> <<
        Group(TRUE,
              << FieldConfig("radio", 2, <<Opt(TRUE, <<"h", "0">>), Opt(FALSE, <<"h", "1">>)>>,
                             <<>>, NoAnswer, <<>>),
                 FieldConfig("text", 3, <<>>, <<>>,
                             [kind |-> "correct", text |-> <<"a">>], <<"h", "t">>) >>,
              1, TRUE),
        Group(TRUE,
              << FieldConfig("checkbox", 1, <<Opt(TRUE, <<"h", "2">>), Opt(FALSE, <<"h", "3">>)>>,
                             <<>>, NoAnswer, <<>>),
                 FieldConfig("radio", 2, <<Opt(FALSE, <<>>), Opt(FALSE, <<>>)>>,
                             <<>>, NoAnswer, <<>>) >>,
              1, FALSE) >>]

\* a table of two rows before a text field, then a group that picks one of a
\* one-row table and a dropdown; a secret of its own
SchemaB ==
    [secret |-> "s",
     fieldgroups |-> <<
        Group(TRUE,
              << FieldConfig("table-radio", 1, <<Opt(FALSE, <<>>), Opt(FALSE, <<>>)>>,
                             << Row(<<TRUE, FALSE>>, 1, <<"r", "0">>),
                                Row(<<FALSE, TRUE>>, 2, <<"r", "1">>) >>,
                             NoAnswer, <<>>),
                 FieldConfig("textarea", 2, <<>>, <<>>,
                             [kind |-> "regex", text |-> <<"a">>], <<"h", "t">>) >>,
              NoPick, FALSE),
        Group(TRUE,
              << FieldConfig("table-checkbox", 0, <<Opt(FALSE, <<>>), Opt(FALSE, <<>>)>>,
                             << Row(<<TRUE>>, 2, <<"r", "2">>) >>,
                             NoAnswer, <<>>),
                 FieldConfig("dropdown", 1, <<Opt(TRUE, <<"h", "4">>), Opt(FALSE, <<"h", "5">>)>>,
                             <<>>, NoAnswer, <<>>) >>,
              1, TRUE) >>]

\* configurations no form can be built over: a table without rows, an unknown
\* type, a group without "fields"
SchemaC ==
    [secret |-> "",
     fieldgroups |-> <<
        Group(TRUE,
              << FieldConfig("table-radio", 1, <<Opt(TRUE, <<>>)>>, <<>>, NoAnswer, <<>>),
                 FieldConfig("slider", 1, <<>>, <<>>, NoAnswer, <<>>),
                 FieldConfig("select", 1, <<Opt(TRUE, <<>>)>>, <<>>, NoAnswer, <<>>) >>,
              1, FALSE),
        Group(FALSE, <<>>, NoPick, FALSE) >>]

Schemas == {SchemaA, SchemaB, SchemaC}

AJAX_KEY == "AJAX_KEY"
Secrets == {AJAX_KEY, "s"}

\* access/types/auth.py: a keyed one-way function of (secret, text); it is
\* taken to have no collisions
make_hash(secret, text) == <<secret, text>>

\* "group_%d" % i, "field_%d" % i, "option_%d" % i
group_name(i) == <<"g", "r", "o", "u", "p", "_">> \o IntStr(i)
field_name(i) == <<"f", "i", "e", "l", "d", "_">> \o IntStr(i)
option_name(i) == <<"o", "p", "t", "i", "o", "n", "_">> \o IntStr(i)

\* the (name, label) pairs of the options, the labels left out
create_choices(configuration) ==
    [k \in 1..Len(configuration.options) |-> option_name(k - 1)]

(***************************************************************************)
(* Values of cleaned_data: None, a string, or a list of strings (as the    *)
(* set of its elements: the form only asks whether a name is in it)        *)
(***************************************************************************)

VNone == [t |-> "None", s |-> <<>>, l |-> {}]
VStr(s) == [t |-> "str", s |-> s, l |-> {}]
VList(l) == [t |-> "list", s |-> <<>>, l |-> l]

\* a in b for two strings
IsSubstr(a, b) ==
    \E k \in 1..(Len(b) + 1) : k + Len(a) - 1 <= Len(b) /\ SubSeq(b, k, k + Len(a) - 1) = a

\* name in value
NameIn(name, value) ==
    IF value.t = "list" THEN name \in value.l ELSE IsSubstr(name, value.s)

\* name == value
NameIs(name, value) == value.t = "str" /\ value.s = name

\* append_hint: the hint, if it is not empty and not yet among the hints
append_hint(hints, configuration) ==
    IF configuration.hint # <<>> /\ configuration.hint \notin Range(hints)
    THEN Append(hints, configuration.hint)
    ELSE hints

\* row_options: the options of a table row, each with the row's hint and
\* its flag of correct_options (False beyond its end)
row_options(configuration, row) ==
    [options |-> [k \in 1..Len(configuration.options) |->
                     [hint |-> row.hint,
                      correct |-> IF k <= Len(row.correct_options)
                                  THEN row.correct_options[k] ELSE FALSE]]]

\* the loop of grade_checkbox from option k on; err is the exception met
RECURSIVE CheckboxLoop(_, _, _, _, _, _)
CheckboxLoop(options, value, k, hints, correct_exists, correct) ==
    IF k > Len(options)
    THEN [ok |-> (~correct_exists) \/ correct, hints |-> hints, err |-> ""]
    ELSE IF value.t = "None"
    THEN [ok |-> FALSE, hints |-> hints, err |-> "TypeError"]
    ELSE
      LET opt == options[k]
          name == option_name(k - 1)
      IN  IF opt.correct THEN
            IF ~NameIn(name, value)
            THEN Let1(append_hint(hints, opt),
                      LAMBDA h : CheckboxLoop(options, value, k + 1, h, TRUE, FALSE))
            ELSE CheckboxLoop(options, value, k + 1, hints, TRUE, correct)
          ELSE IF NameIn(name, value)
            THEN Let1(append_hint(hints, opt),
                      LAMBDA h : CheckboxLoop(options, value, k + 1, h, correct_exists, FALSE))
            ELSE CheckboxLoop(options, value, k + 1, hints, correct_exists, correct)

grade_checkbox(configuration, value, hints) ==
    CheckboxLoop(configuration.options, value, 1, hints, FALSE, TRUE)

\* the loop of grade_radio from option k on
RECURSIVE RadioLoop(_, _, _, _, _, _)
RadioLoop(options, value, k, hints, correct_exists, correct) ==
    IF k > Len(options)
    THEN [ok |-> (~correct_exists) \/ correct, hints |-> hints, err |-> ""]
    ELSE
      LET opt == options[k]
          name == option_name(k - 1)
      IN  IF opt.correct THEN
            IF NameIs(name, value)
            THEN RadioLoop(options, value, k + 1, hints, TRUE, TRUE)
            ELSE Let1(append_hint(hints, opt),
                      LAMBDA h : RadioLoop(options, value, k + 1, h, TRUE, correct))
          ELSE IF NameIs(name, value)
            THEN Let1(append_hint(hints, opt),
                      LAMBDA h : RadioLoop(options, value, k + 1, h, correct_exists, correct))
            ELSE RadioLoop(options, value, k + 1, hints, correct_exists, correct)

grade_radio(configuration, value, hints) ==
    RadioLoop(configuration.options, value, 1, hints, FALSE, FALSE)

\* grade_text: value.strip() against "correct", else against "regex" from
\* the start; a value that is no string has no strip
grade_text(configuration, value) ==
    IF configuration.answer.kind = "none"
    THEN [ok |-> TRUE, hints |-> <<>>, err |-> ""]
    ELSE IF value.t # "str"
    THEN [ok |-> FALSE, hints |-> <<>>, err |-> "AttributeError"]
    ELSE
      LET correct == IF configuration.answer.kind = "correct"
                     THEN Strip(value.s) = configuration.answer.text
                     ELSE StartsWith(Strip(value.s), configuration.answer.text)
      IN  [ok |-> correct,
           hints |-> IF correct THEN <<>> ELSE append_hint(<<>>, configuration),
           err |-> ""]

(***************************************************************************)
(* access/types/forms.py: GradedForm.__init__                              *)
(*                                                                         *)
(* self.fields is the sequence of the field instances in the order they    *)
(* were added; an instance is found by its name.  "origin" records, for    *)
(* the properties only, the place a field instance was made for: group g,  *)
(* position j in the group's "_fields", row (0 for a field that is no      *)
(* table row).  group["_fields"] is the sequence of the positions, in      *)
(* group["fields"], of the configurations it holds.                        *)
(***************************************************************************)

NoChoices == [some |-> FALSE, list |-> <<>>]
Choices(list) == [some |-> TRUE, list |-> list]

Origin(g, j, row) == [g |-> g, j |-> j, row |-> row]

\* add_field: the instance named field_<i>, and i + 1.  attrs_default says
\* that the caller passed no widget_attrs, so that the dict written to is
\* the parameter's default value, shared by all calls.
add_field(b, config, field_class, widget_class, choices, attrs_default, origin) ==
    LET wro == IF attrs_default THEN (b.wro \/ b.disabled) ELSE b.wro
        field == [name        |-> field_name(b.i),
                  type        |-> config.type,
                  class       |-> field_class,
                  widget      |-> widget_class,
                  readonly    |-> IF attrs_default THEN wro ELSE b.disabled,
                  points      |-> config.points,
                  choices     |-> choices.list,
                  choice_list |-> choices.some /\ widget_class # "Select",
                  group_errors |-> FALSE,
                  open_set    |-> <<>>,
                  close_set   |-> FALSE,
                  open_table  |-> FALSE,
                  close_table |-> FALSE,
                  graded      |-> EmptyDict,
                  origin      |-> origin]
    IN  [b EXCEPT !.i = b.i + 1, !.fields = Append(b.fields, field), !.wro = wro]

\* the loop of add_table_fields from row r on
RECURSIVE TableRows(_, _, _, _, _, _, _)
TableRows(b, config, field_class, widget_class, choices, origin, r) ==
    IF r > Len(config.rows) THEN b
    ELSE Let1(add_field(b, config, field_class, widget_class, choices, FALSE,
                        Origin(origin.g, origin.j, r)),
              LAMBDA b1 : TableRows(b1, config, field_class, widget_class, choices,
                                    origin, r + 1))

\* add_table_fields: one instance per row; fields[0] and fields[-1] of a
\* table without rows are an IndexError
add_table_fields(b, config, field_class, widget_class, origin) ==
    Let1(TableRows(b, config, field_class, widget_class,
                   Choices(create_choices(config)), origin, 1),
         LAMBDA b1 :
            LET first == Len(b.fields) + 1
                last == Len(b1.fields)
            IN  IF last < first THEN [b1 EXCEPT !.err = "IndexError"]
                ELSE [b1 EXCEPT !.fields[first].open_table = TRUE,
                                !.fields[last].close_table = TRUE])

\* the body of the loop over group["_fields"]: the field by its type, then
\* the marks on what was added
BuildField(b, g, j, l, config, group_errors) ==
    LET t == config.type
        o == Origin(g, j, 0)
        added == IF t = "checkbox" THEN
                add_field(b, config, "MultipleChoiceField", "CheckboxSelectMultiple",
                          Choices(create_choices(config)), FALSE, o)
              ELSE IF t = "radio" THEN
                add_field(b, config, "ChoiceField", "RadioSelect",
                          Choices(create_choices(config)), FALSE, o)
              ELSE IF t = "dropdown" \/ t = "select" THEN
                add_field(b, config, "ChoiceField", "Select",
                          Choices(create_choices(config)), TRUE, o)
              ELSE IF t = "text" THEN
                add_field(b, config, "CharField", "TextInput", NoChoices, TRUE, o)
              ELSE IF t = "textarea" THEN
                add_field(b, config, "CharField", "Textarea", NoChoices, TRUE, o)
              ELSE IF t = "table-radio" THEN
                add_table_fields(b, config, "ChoiceField", "RadioSelect", o)
              ELSE IF t = "table-checkbox" THEN
                add_table_fields(b, config, "MultipleChoiceField", "CheckboxSelectMultiple", o)
              ELSE [b EXCEPT !.err = "ConfigError"]
        first == Len(b.fields) + 1
        marked(fields) ==
            [k \in 1..Len(fields) |->
                IF k < first THEN fields[k]
                ELSE [fields[k] EXCEPT
                        !.group_errors = group_errors,
                        !.open_set = IF j = 0 /\ k = first THEN group_name(g) ELSE @,
                        !.close_set = IF j >= l /\ k = Len(fields) THEN TRUE ELSE @]]
    IN  Let1(added, LAMBDA b1 :
                IF b1.err # "" THEN b1 ELSE [b1 EXCEPT !.fields = marked(b1.fields)])

RECURSIVE BuildFields(_, _, _, _, _)
BuildFields(b, g, group, sel, j) ==
    IF j >= Len(sel) \/ b.err # "" THEN b
    ELSE Let1(BuildField(b, g, j, Len(sel) - 1, group.fields[sel[j + 1] + 1],
                         group.group_errors),
              LAMBDA b1 : BuildFields(b1, g, group, sel, j + 1))

\* [int(i) for i in token.split('-')]
ParseOk(token) == \A k \in 1..Len(Split(token, "-")) : IntOk(Split(token, "-")[k])

ParseIndexes(token) ==
    LET pieces == Split(token, "-") IN [k \in 1..Len(pieces) |-> IntVal(pieces[k])]

\* '-'.join([str(i) for i in indexes])
FormatIndexes(indexes) == Join([k \in 1..Len(indexes) |-> IntStr(indexes[k])], "-")

\* the place of fields[i] in the list, for an index Python accepts
Place(fields, i) == IF i >= 0 THEN i ELSE Len(fields) + i

\* a group whose fields are picked: the indexes, then
\* group["_fields"] = [group["fields"][i] for i in indexes]
PickFields(b, g, group, bound, draw) ==
    LET b1 == IF bound THEN [b EXCEPT !.disabled = TRUE] ELSE b
        picked == IF ~bound THEN
                    [b1 EXCEPT !.indexes = draw,
                               !.samples = Append(@, FormatIndexes(draw))]
                  ELSE IF ~b1.has_post THEN [b1 EXCEPT !.err = "NameError"]
                  ELSE IF Len(b1.post) > 0 THEN
                    IF ParseOk(Head(b1.post))
                    THEN [b1 EXCEPT !.indexes = ParseIndexes(Head(b1.post)),
                                    !.post = Tail(@),
                                    !.from_sample = @ \cup {g}]
                    ELSE [b1 EXCEPT !.post = Tail(@), !.err = "ValueError"]
                  ELSE [b1 EXCEPT !.indexes = <<>>]
    IN  Let1(picked, LAMBDA b2 :
            IF b2.err # "" THEN b2
            ELSE IF \E k \in 1..Len(b2.indexes) : ~IndexOk(group.fields, b2.indexes[k])
            THEN [b2 EXCEPT !.err = "IndexError"]
            ELSE [b2 EXCEPT !.gf[g + 1] =
                     [has |-> TRUE,
                      idx |-> [k \in 1..Len(b2.indexes) |->
                                  Place(group.fields, b2.indexes[k])]]])

\* the body of the loop over exercise["fieldgroups"]
BuildGroup(b, g, group, bound, draw) ==
    IF ~group.has_fields THEN [b EXCEPT !.err = "ConfigError"]
    ELSE
      LET b1 == IF group.group_errors THEN [b EXCEPT !.group_errors = TRUE] ELSE b
          selected == IF group.pick_randomly # NoPick
                      THEN PickFields(b1, g, group, bound, draw)
                      ELSE [b1 EXCEPT !.gf[g + 1] =
                              [has |-> TRUE, idx |-> [k \in 1..Len(group.fields) |-> k - 1]]]
      IN  Let1(selected, LAMBDA b2 :
              IF b2.err # "" THEN b2
              ELSE BuildFields(b2, g, group, b2.gf[g + 1].idx, 0))

RECURSIVE BuildGroups(_, _, _, _, _)
BuildGroups(b, exercise, bound, draws, g) ==
    IF g >= Len(exercise.fieldgroups) \/ b.err # "" THEN b
    ELSE Let1(BuildGroup(b, g, exercise.fieldgroups[g + 1], bound, draws[g + 1]),
              LAMBDA b1 : BuildGroups(b1, exercise, bound, draws, g + 1))

\* self.exercise.get('secret') or settings.AJAX_KEY
SecretOf(exercise) == IF exercise.secret # "" THEN exercise.secret ELSE AJAX_KEY

samples_hash(exercise, nonce, sample) == make_hash(SecretOf(exercise), nonce \o sample)

\* a variant that trusts a sample submitted without a checksum
SampleRejectedIfChecksumGiven(exercise, data) ==
    /\ data.nonce # <<>>
    /\ data.sample # <<>>
    /\ data.checksum # <<>>
    /\ samples_hash(exercise, data.nonce, data.sample) # data.checksum

\* a nonce and a sample are given and the checksum of the two is not the
\* one given
SampleRejected(exercise, data) ==
    /\ data.nonce # <<>>
    /\ data.sample # <<>>
    /\ samples_hash(exercise, data.nonce, data.sample) # data.checksum

\* the constructor, from the exercise as it is; the outcome is in err
GradedForm__init__(exercise, gf, wro, data, draws) ==
    LET b0 == [i |-> 0, fields |-> <<>>, gf |-> gf, wro |-> wro, disabled |-> FALSE,
               group_errors |-> FALSE, samples |-> <<>>, indexes |-> <<>>,
               has_post |-> data.bound /\ data.nonce # <<>> /\ data.sample # <<>>,
               post |-> IF data.bound /\ data.nonce # <<>> /\ data.sample # <<>>
                        THEN Split(data.sample, "/") ELSE <<>>,
               from_sample |-> {}, err |-> ""]
    IN  IF data.bound /\ SampleRejected(exercise, data)
        THEN [b0 EXCEPT !.err = "PermissionDenied"]
        ELSE BuildGroups(b0, exercise, data.bound, draws, 0)

(***************************************************************************)
(* access/types/forms.py: GradedForm.grade                                 *)
(*                                                                         *)
(* cleaned_data is the sequence of the values of the form's fields, in the *)
(* order of self.fields.  The grading state s holds the counter i, the     *)
(* sums, the form's fields, and for the properties the log of the fields   *)
(* graded: the place of each in the walk, the names and values it read,    *)
(* and what grade_field returned for it.                                   *)
(***************************************************************************)

HasField(fields, name) == \E k \in 1..Len(fields) : fields[k].name = name

FieldAt(fields, name) == CHOOSE k \in 1..Len(fields) : fields[k].name = name

\* self.cleaned_data.get(name, None)
CleanedGet(fields, cleaned_data, name) ==
    IF HasField(fields, name) THEN cleaned_data[FieldAt(fields, name)] ELSE VNone

\* self.fields[name].<attr> = v; the name must be there
SetGraded(fields, name, attr, v) ==
    [fields EXCEPT ![FieldAt(fields, name)].graded = DictSet(@, attr, v)]

\* i += 1 at the end of the loop over the rows
\* a variant in which a table row leaves the counter where it is
RowStepStuck(i) == i

RowStep(i) == i + 1

\* the loop over the rows of a table from row r on; t is the running state
\* of grade_field: i, all_ok, hints, points, max_points, name, names, values
RECURSIVE GradeRows(_, _, _, _, _)
GradeRows(fields, cleaned_data, configuration, t, r) ==
    IF r > Len(configuration.rows) \/ t.err # "" THEN t
    ELSE
      LET row == configuration.rows[r]
          name == field_name(t.i)
          value == CleanedGet(fields, cleaned_data, name)
          graded == IF configuration.type = "table-radio"
                    THEN grade_radio(row_options(configuration, row), value, t.hints)
                    ELSE grade_checkbox(row_options(configuration, row), value, t.hints)
          t1 == [t EXCEPT !.name = name,
                          !.names = Append(@, name),
                          !.values = Append(@, value)]
      IN  Let1(graded, LAMBDA res :
              IF res.err # "" THEN [t1 EXCEPT !.err = res.err]
              ELSE Let1([t1 EXCEPT !.all_ok = @ /\ res.ok,
                                   !.hints = res.hints,
                                   !.points = IF res.ok THEN @ + row.points ELSE @,
                                   !.max_points = @ + row.points,
                                   !.i = RowStep(@)],
                        LAMBDA t2 : GradeRows(fields, cleaned_data, configuration, t2, r + 1)))

\* the slot the hints of a table are stored on: self.fields[name], name
\* being the name of the last row
HintSlot(first_name, name) == name

\* grade_field for a table: [i, ok, p, fields, names, values, err]
GradeTable(fields, cleaned_data, i, configuration) ==
    LET first_name == field_name(i)
        rows == GradeRows(fields, cleaned_data, configuration,
                    [i |-> i, all_ok |-> TRUE, hints |-> <<>>,
                     points |-> configuration.points, max_points |-> configuration.points,
                     name |-> <<>>, names |-> <<>>, values |-> <<>>, err |-> ""], 1)
    IN  Let1(rows, LAMBDA t :
          LET out(fs, err) == [i |-> t.i, ok |-> t.all_ok, p |-> t.points, fields |-> fs,
                               names |-> t.names, values |-> t.values, err |-> err]
          IN  IF t.err # "" THEN out(fields, t.err)
              ELSE IF ~HasField(fields, first_name) THEN out(fields, "KeyError")
              ELSE Let1(SetGraded(SetGraded(fields, first_name, "grade_points", t.points),
                                  first_name, "max_points", t.max_points),
                        LAMBDA f1 :
                          IF Len(configuration.rows) = 0 THEN out(f1, "NameError")
                          ELSE IF ~HasField(f1, HintSlot(first_name, t.name))
                          THEN out(f1, "KeyError")
                          ELSE out(SetGraded(f1, HintSlot(first_name, t.name), "hints",
                                             Join(t.hints, " ")), "")))

\* points if ok else 0
\* a variant that awards the points of a wrong field too
AwardedAlways(ok, points) == points

Awarded(ok, points) == IF ok THEN points ELSE 0

\* grade_field for a field that is no table
GradeSimple(fields, cleaned_data, i, configuration) ==
    LET tp == configuration.type
        name == field_name(i)
        value == CleanedGet(fields, cleaned_data, name)
        graded == IF tp = "checkbox" THEN grade_checkbox(configuration, value, <<>>)
                  ELSE IF tp = "radio" \/ tp = "dropdown" \/ tp = "select"
                  THEN grade_radio(configuration, value, <<>>)
                  ELSE IF tp = "text" \/ tp = "textarea" THEN grade_text(configuration, value)
                  ELSE [ok |-> FALSE, hints |-> <<>>, err |-> "ConfigError"]
        points == configuration.points
    IN  Let1(graded, LAMBDA res :
          LET p == Awarded(res.ok, points)
              out(fs, ok, err) == [i |-> i + 1, ok |-> ok, p |-> p, fields |-> fs,
                                   names |-> <<name>>, values |-> <<value>>, err |-> err]
          IN  IF res.err # "" THEN out(fields, FALSE, res.err)
              ELSE IF ~HasField(fields, name) THEN out(fields, res.ok, "KeyError")
              ELSE out(SetGraded(SetGraded(SetGraded(fields, name, "grade_points", p),
                                           name, "max_points", points),
                                 name, "hints", Join(res.hints, " ")),
                       res.ok, ""))

grade_field(fields, cleaned_data, i, configuration) ==
    IF configuration.type = "table-radio" \/ configuration.type = "table-checkbox"
    THEN GradeTable(fields, cleaned_data, i, configuration)
    ELSE GradeSimple(fields, cleaned_data, i, configuration)

\* the body of the loop over group["_fields"] in grade
GradeStep(s, cleaned_data, g, j, idx, configuration) ==
    LET prev == s.i
        gname == group_name(g)
    IN  Let1(grade_field(s.fields, cleaned_data, s.i, configuration), LAMBDA r :
          LET entry == [g |-> g, j |-> j, idx |-> idx, first |-> field_name(prev),
                        names |-> r.names, values |-> r.values, ok |-> r.ok, p |-> r.p]
          IN  IF r.err # "" THEN [s EXCEPT !.fields = r.fields, !.err = r.err]
              ELSE [s EXCEPT
                      !.i = r.i,
                      !.fields = r.fields,
                      !.points = @ + r.p,
                      !.log = Append(@, entry),
                      !.error_fields = IF r.ok THEN @ ELSE Append(@, field_name(prev)),
                      !.error_groups = IF r.ok \/ gname \in Range(@) THEN @
                                       ELSE Append(@, gname)])

RECURSIVE GradeFields(_, _, _, _, _, _)
GradeFields(s, cleaned_data, g, group, sel, j) ==
    IF j >= Len(sel) \/ s.err # "" THEN s
    ELSE Let1(GradeStep(s, cleaned_data, g, j, sel[j + 1], group.fields[sel[j + 1] + 1]),
              LAMBDA s1 : GradeFields(s1, cleaned_data, g, group, sel, j + 1))

RECURSIVE GradeGroups(_, _, _, _, _)
GradeGroups(s, cleaned_data, exercise, gf, g) ==
    IF g >= Len(exercise.fieldgroups) \/ s.err # "" THEN s
    ELSE Let1(GradeFields(s, cleaned_data, g, exercise.fieldgroups[g + 1], gf[g + 1].idx, 0),
              LAMBDA s1 : GradeGroups(s1, cleaned_data, exercise, gf, g + 1))

\* grade(): (points, error_groups, error_fields), walking the "_fields" the
\* exercise holds when it runs
grade(exercise, gf, fields, cleaned_data) ==
    GradeGroups([i |-> 0, points |-> 0, error_fields |-> <<>>, error_groups |-> <<>>,
                 fields |-> fields, log |-> <<>>, err |-> ""],
                cleaned_data, exercise, gf, 0)

(***************************************************************************)
(* The requests of one process over one exercise configuration.  A request *)
(* builds a form and then renders it, or, when the form is bound to        *)
(* submitted data and valid, grades it; the requests of several workers    *)
(* interleave.                                                             *)
(***************************************************************************)

MaxForms == 2
NonceLen == 1

FormIds == 1..MaxForms

NoForm == [alive |-> FALSE]

NonceAlphabet == {"a"}

\* util/files.py: random_ascii(n), n random characters
random_ascii(n) == SeqsOfLen(NonceAlphabet, n)

\* random.sample(range(n), k): k different indexes, in any order
RandomSample(n, k) ==
    {s \in SeqsOfLen(0..(n - 1), k) : \A x, y \in 1..k : x # y => s[x] # s[y]}

\* the draws a build may make, one per group (none where nothing is picked)
RECURSIVE DrawsFrom(_, _)
DrawsFrom(groups, g) ==
    IF g > Len(groups) THEN {<<>>}
    ELSE LET here == IF groups[g].has_fields /\ groups[g].pick_randomly # NoPick
                     THEN RandomSample(Len(groups[g].fields), groups[g].pick_randomly)
                     ELSE {<<>>}
         IN  {<<d>> \o rest : d \in here, rest \in DrawsFrom(groups, g + 1)}

NoDraws(groups) == [g \in 1..Len(groups) |-> <<>>]

\* what a request may submit as _sample
SampleMenu ==
    { <<>>,
      <<"0", "/", "1">>,
      <<"1", "/", "0">>,
      <<"0">>,
      <<"0", "/", "1", "/", "0">>,
      <<"x", "/", "0">>,
      <<"2", "/", "0">>,
      <<"-", "1", "/", "0">>,
      <<"0", "-", "1", "/", "0">> }

SubmittedNonces == {<<>>} \cup random_ascii(NonceLen)

\* what a request may submit as _checksum: nothing, or the hash of the nonce
\* and the sample, or of the nonce and another sample, under either secret
SubmittedChecksums(nonce, sample) ==
    {<<>>} \cup {make_hash(k, nonce \o s) : k \in Secrets, s \in {sample, <<"0">>}}

Unbound == [bound |-> FALSE, nonce |-> <<>>, sample |-> <<>>, checksum |-> <<>>]

BoundData ==
    UNION {{[bound |-> TRUE, nonce |-> n, sample |-> s, checksum |-> c] :
               c \in SubmittedChecksums(n, s)} : n \in SubmittedNonces, s \in SampleMenu}

\* the submitted data whose manifest verifies and selects fields
GradeSamples == {<<"0", "/", "1">>, <<"1", "/", "0">>, <<"0">>}

VerifiedData(exercise) ==
    {d \in BoundData : /\ d.nonce # <<>>
                       /\ d.sample \in GradeSamples
                       /\ d.checksum = samples_hash(exercise, d.nonce, d.sample)}

\* the values Django's validation leaves in cleaned_data for a field
TextMenu == {<<" ", "a", " ">>, <<"b">>}

ValuesOf(field) ==
    IF field.class = "ChoiceField"
    THEN {VStr(field.choices[k]) : k \in 1..Len(field.choices)}
    ELSE IF field.class = "MultipleChoiceField"
    THEN {VList(S) : S \in SUBSET Range(field.choices)}
    ELSE {VStr(x) : x \in TextMenu}

RECURSIVE CleanedDatas(_, _)
CleanedDatas(fields, k) ==
    IF k > Len(fields) THEN {<<>>}
    ELSE {<<v>> \o rest : v \in ValuesOf(fields[k]), rest \in CleanedDatas(fields, k + 1)}

\* GradedForm(data, exercise=exercise); the new object takes the first free
\* slot
Construct(f, data, draws, nonce) ==
    /\ ~forms[f].alive
    /\ \A h \in FormIds : h < f => forms[h].alive
    /\ \E b \in {GradedForm__init__(schema, gfields, widget_ro, data, draws)} :
       LET protected == Len(b.samples) > 0
           sample == Join(b.samples, "/")
       IN  /\ gfields' = b.gf
           /\ widget_ro' = b.wro
           /\ forms' = IF b.err # "" THEN forms
                       ELSE [forms EXCEPT ![f] =
                               [alive |-> TRUE, bound |-> data.bound, fields |-> b.fields,
                                disabled |-> b.disabled, group_errors |-> b.group_errors,
                                protected |-> protected,
                                nonce |-> IF protected THEN nonce ELSE <<>>,
                                sample |-> IF protected THEN sample ELSE <<>>,
                                checksum |-> IF protected
                                             THEN samples_hash(schema, nonce, sample)
                                             ELSE <<>>,
                                own |-> b.gf]]
           /\ req' = [op |-> "construct", f |-> f, data |-> data,
                      outcome |-> IF b.err # "" THEN b.err ELSE "ok",
                      from_sample |-> b.from_sample]
    /\ UNCHANGED schema

\* the response is rendered from the form and the request ends
Render(f) ==
    /\ forms[f].alive
    /\ forms' = [forms EXCEPT ![f] = NoForm]
    /\ req' = [op |-> "render", f |-> f]
    /\ UNCHANGED <<schema, gfields, widget_ro>>

\* form.is_valid() left cleaned_data, then form.grade(); the request ends
Grade(f, cleaned_data) ==
    /\ forms[f].alive
    /\ forms[f].bound
    /\ \E s \in {grade(schema, gfields, forms[f].fields, cleaned_data)} :
           req' = [op |-> "grade", f |-> f, form |-> forms[f],
                   cleaned_data |-> cleaned_data, walked |-> gfields,
                   outcome |-> IF s.err # "" THEN s.err ELSE "ok",
                   points |-> s.points, error_groups |-> s.error_groups,
                   error_fields |-> s.error_fields, fields |-> s.fields, log |-> s.log]
    /\ forms' = [forms EXCEPT ![f] = NoForm]
    /\ UNCHANGED <<schema, gfields, widget_ro>>

Init ==
    /\ schema \in Schemas
    /\ gfields = [g \in 1..Len(schema.fieldgroups) |-> [has |-> FALSE, idx |-> <<>>]]
    /\ widget_ro = FALSE
    /\ forms = [f \in FormIds |-> NoForm]
    /\ req = [op |-> "none"]
    /\ default_args = EmptyDict
    /\ call = [fn |-> "none"]
    /\ parse = [fn |-> "none"]

Next ==
    \/ \E f \in FormIds, draws \in DrawsFrom(schema.fieldgroups, 1), nonce \in random_ascii(NonceLen) :
          Construct(f, Unbound, draws, nonce) /\ UNCHANGED <<action_vars, parse>>
    \/ \E f \in FormIds, data \in VerifiedData(schema) :
          Construct(f, data, NoDraws(schema.fieldgroups), <<>>) /\ UNCHANGED <<action_vars, parse>>
    \/ \E f \in FormIds : Render(f) /\ UNCHANGED <<action_vars, parse>>
    \/ \E f \in FormIds :
          \E cleaned_data \in CleanedDatas(IF forms[f].alive THEN forms[f].fields ELSE <<>>, 1) :
             Grade(f, cleaned_data) /\ UNCHANGED <<action_vars, parse>>

Spec == Init /\ [][Next]_vars

\* one request at a time, with whatever data it may submit
NextBuild ==
    \/ \E draws \in DrawsFrom(schema.fieldgroups, 1), nonce \in random_ascii(NonceLen) :
          Construct(1, Unbound, draws, nonce) /\ UNCHANGED <<action_vars, parse>>
    \/ \E data \in BoundData :
          Construct(1, data, NoDraws(schema.fieldgroups), <<>>) /\ UNCHANGED <<action_vars, parse>>
    \/ Render(1) /\ UNCHANGED <<action_vars, parse>>

SpecBuild == Init /\ [][NextBuild]_vars

(***************************************************************************)
(* Properties of the form                                                  *)
(***************************************************************************)

ConfigAt(g, idx) == schema.fieldgroups[g + 1].fields[idx + 1]

IsTable(configuration) ==
    configuration.type = "table-radio" \/ configuration.type = "table-checkbox"

PickGroups(exercise) ==
    SelectSeq(exercise.fieldgroups, LAMBDA group : group.pick_randomly # NoPick)

KnownTypes ==
    {"checkbox", "radio", "dropdown", "select", "text", "textarea", "table-radio",
     "table-checkbox"}

\* a configuration a form can be built over, whatever is picked
Buildable(exercise) ==
    \A g \in 1..Len(exercise.fieldgroups) :
        LET group == exercise.fieldgroups[g]
        IN  /\ group.has_fields
            /\ \A k \in 1..Len(group.fields) :
                  /\ group.fields[k].type \in KnownTypes
                  /\ IsTable(group.fields[k]) => Len(group.fields[k].rows) > 0

GivesManifest(data) == data.bound /\ data.nonce # <<>> /\ data.sample # <<>>

\* C1: a submitted sample (with a non-empty nonce) selects fields only after
\* its checksum was found equal to the hash of (secret, nonce + sample); on a
\* mismatch the construction is rejected with a permission error and nothing
\* was selected from the sample.
C1_SampleUsedOnlyVerified ==
    (req.op = "construct" /\ GivesManifest(req.data)) =>
        LET expected == make_hash(IF schema.secret # "" THEN schema.secret ELSE AJAX_KEY,
                                  req.data.nonce \o req.data.sample)
        IN  /\ req.from_sample # {} => req.data.checksum = expected
            /\ req.data.checksum # expected =>
                  /\ req.outcome = "PermissionDenied"
                  /\ req.from_sample = {}
                  /\ ~forms[req.f].alive

C1_Witness ==
    /\ req.op = "construct"
    /\ GivesManifest(req.data)
    /\ req.data.checksum # <<>>
    /\ req.data.checksum # make_hash(IF schema.secret # "" THEN schema.secret ELSE AJAX_KEY,
                                     req.data.nonce \o req.data.sample)
    /\ req.outcome = "PermissionDenied"

\* the names and places of the fields a grading read, in the order it read them
RECURSIVE ReadOf(_, _)
ReadOf(log, k) ==
    IF k > Len(log) THEN <<>>
    ELSE LET e == log[k]
             table == IsTable(ConfigAt(e.g, e.idx))
         IN  [r \in 1..Len(e.names) |->
                 [name |-> e.names[r],
                  origin |-> Origin(e.g, e.j, IF table THEN r ELSE 0)]]
             \o ReadOf(log, k + 1)

BuiltOf(fields) ==
    [k \in 1..Len(fields) |-> [name |-> fields[k].name, origin |-> fields[k].origin]]

\* C2: over the selection a form was built on, grading completes and reads
\* the fields under the names the builder gave them: one name per field that
\* is no table and one per table row, in the builder's order, the counter
\* advancing by one for each.
C2_GradeNamesAreBuildNames ==
    (req.op = "grade" /\ req.walked = req.form.own) =>
        /\ req.outcome = "ok"
        /\ ReadOf(req.log, 1) = BuiltOf(req.form.fields)
        /\ \A k \in 1..Len(req.form.fields) : req.form.fields[k].name = field_name(k - 1)

C2_Witness ==
    /\ req.op = "grade"
    /\ req.walked = req.form.own
    /\ req.outcome = "ok"
    /\ Len(req.log) >= 3
    /\ Len(req.log[1].names) = 2

\* C3: a form is graded over the fields selected when that form was built,
\* whatever forms were built over the exercise in between.
C3_GradeWalksOwnSelection ==
    req.op = "grade" => req.walked = req.form.own

\* what it is for a value to answer a field correctly
CorrectNames(options) == {option_name(k - 1) : k \in {n \in 1..Len(options) : options[n].correct}}

RadioCorrect(options, value) ==
    CorrectNames(options) = {} \/ (value.t = "str" /\ value.s \in CorrectNames(options))

CheckboxCorrect(options, value) ==
    \/ CorrectNames(options) = {}
    \/ \A k \in 1..Len(options) : NameIn(option_name(k - 1), value) <=> options[k].correct

TextCorrect(configuration, value) ==
    \/ configuration.answer.kind = "none"
    \/ configuration.answer.kind = "correct" /\ Strip(value.s) = configuration.answer.text
    \/ configuration.answer.kind = "regex"
          /\ StartsWith(Strip(value.s), configuration.answer.text)

RowCorrect(configuration, r, value) ==
    IF configuration.type = "table-radio"
    THEN RadioCorrect(row_options(configuration, configuration.rows[r]).options, value)
    ELSE CheckboxCorrect(row_options(configuration, configuration.rows[r]).options, value)

FullyCorrect(configuration, values) ==
    IF IsTable(configuration)
    THEN \A r \in 1..Len(configuration.rows) : RowCorrect(configuration, r, values[r])
    ELSE IF configuration.type = "checkbox"
    THEN CheckboxCorrect(configuration.options, values[1])
    ELSE IF configuration.type \in {"radio", "dropdown", "select"}
    THEN RadioCorrect(configuration.options, values[1])
    ELSE TextCorrect(configuration, values[1])

RECURSIVE CorrectRowPoints(_, _, _)
CorrectRowPoints(configuration, values, r) ==
    IF r > Len(configuration.rows) THEN 0
    ELSE (IF RowCorrect(configuration, r, values[r]) THEN configuration.rows[r].points ELSE 0)
         + CorrectRowPoints(configuration, values, r + 1)

\* C4 as claimed: for every field type, tables included, the points of a
\* field are its configured points when it is fully correct and zero when
\* it is not.
C4_PointsAllOrNothing ==
    req.op = "grade" =>
        \A k \in 1..Len(req.log) :
            LET e == req.log[k]
                configuration == ConfigAt(e.g, e.idx)
            IN  e.p = IF FullyCorrect(configuration, e.values) THEN configuration.points ELSE 0

\* C4 as amended: a field is reported correct exactly when it is fully
\* correct; a field that is no table gets its configured points when it is
\* fully correct and zero when not; a table gets its configured points plus
\* the points of each correct row, fully correct or not.
C4_PointsByKind ==
    req.op = "grade" =>
        \A k \in 1..Len(req.log) :
            LET e == req.log[k]
                configuration == ConfigAt(e.g, e.idx)
            IN  /\ e.ok <=> FullyCorrect(configuration, e.values)
                /\ e.p = IF IsTable(configuration)
                         THEN configuration.points + CorrectRowPoints(configuration, e.values, 1)
                         ELSE IF FullyCorrect(configuration, e.values)
                         THEN configuration.points ELSE 0

C4_Witness ==
    /\ req.op = "grade"
    /\ \E k \in 1..Len(req.log) :
          /\ IsTable(ConfigAt(req.log[k].g, req.log[k].idx))
          /\ ~req.log[k].ok
          /\ req.log[k].p > ConfigAt(req.log[k].g, req.log[k].idx).points
    /\ \E k \in 1..Len(req.log) :
          /\ ~IsTable(ConfigAt(req.log[k].g, req.log[k].idx))
          /\ ~req.log[k].ok
          /\ req.log[k].p = 0

\* C5: a wrong field of a group that sets group_errors adds the group's name
\* to the erroneous groups and its own name to no list of the result.
C5_GroupErrorsHideFields ==
    (req.op = "grade" /\ req.outcome = "ok") =>
        \A k \in 1..Len(req.log) :
            LET e == req.log[k]
            IN  (schema.fieldgroups[e.g + 1].group_errors /\ ~e.ok) =>
                    /\ group_name(e.g) \in Range(req.error_groups)
                    /\ e.first \notin Range(req.error_fields)

\* the index lists of a sample, as the claim reads them: one entry per
\* picking group, each a dash-separated list of positions in the group
Malformed(exercise, sample) ==
    LET entries == Split(sample, "/")
        picking == PickGroups(exercise)
    IN  \/ Len(entries) # Len(picking)
        \/ \E g \in 1..Len(entries) :
              \E k \in 1..Len(Split(entries[g], "-")) :
                 LET piece == Split(entries[g], "-")[k]
                 IN  \/ ~IsDigits(piece)
                     \/ g <= Len(picking) /\ DigitsVal(piece) >= Len(picking[g].fields)

\* C7: a form built from a sample that is malformed for the schema is not
\* built: the construction fails.
C7_MalformedSampleFails ==
    (req.op = "construct" /\ GivesManifest(req.data) /\ Malformed(schema, req.data.sample)) =>
        req.outcome # "ok"

\* C8: on a schema with a picking group, data without a nonce or without a
\* sample is built as "no randomization": the construction completes.
C8_MissingManifestUngated ==
    (/\ req.op = "construct"
     /\ req.data.bound
     /\ (req.data.nonce = <<>> \/ req.data.sample = <<>>)
     /\ Len(PickGroups(schema)) > 0
     /\ Buildable(schema)) =>
        req.outcome = "ok"

(***************************************************************************)
(* grader/actions.py: the diff-block parser                                *)
(***************************************************************************)

NL == "\n"

TestcasePrefix == <<"T", "e", "s", "t", "c", "a", "s", "e", ":">>
ExpectedPrefix == <<"E", "x", "p", "e", "c", "t", "e", "d", ":">>
ActualPrefix   == <<"A", "c", "t", "u", "a", "l", ":">>

\* the record the parser commits
DiffCommit(description, expected, actual) ==
    [description |-> Join(description, NL),
     expected    |-> Join(expected, NL),
     actual      |-> Join(actual, NL),
     fail        |-> expected # actual]

\* the loop over output.split("\n"), then the final commit
RECURSIVE DiffLoop(_, _, _, _, _, _)
DiffLoop(lines, tests, description, expected, actual, section) ==
    IF lines = <<>> THEN Append(tests, DiffCommit(description, expected, actual))
    ELSE
      LET l == Head(lines)
          rest == Tail(lines)
      IN  IF StartsWith(l, TestcasePrefix) THEN
            IF Len(description) > 0 /\ Len(expected) > 0 /\ Len(actual) > 0
            THEN DiffLoop(rest, Append(tests, DiffCommit(description, expected, actual)),
                          <<Drop(l, 10)>>, <<>>, <<>>, "description")
            ELSE DiffLoop(rest, tests, Append(description, Drop(l, 10)),
                          expected, actual, "description")
          ELSE IF StartsWith(l, ExpectedPrefix) THEN
            DiffLoop(rest, tests, description, Append(expected, Drop(l, 10)),
                     actual, "expected")
          ELSE IF StartsWith(l, ActualPrefix) THEN
            DiffLoop(rest, tests, description, expected,
                     Append(actual, Drop(l, 8)), "actual")
          ELSE IF section = "description" THEN
            DiffLoop(rest, tests, Append(description, l), expected, actual, section)
          ELSE IF section = "expected" THEN
            DiffLoop(rest, tests, description, Append(expected, l), actual, section)
          ELSE
            DiffLoop(rest, tests, description, expected, Append(actual, l), section)

_parse_difftests(output) ==
    DiffLoop(Split(output, NL), <<>>, <<>>, <<>>, <<>>, "actual")

(***************************************************************************)
(* grader/actions.py: the actions that run a script                        *)
(*                                                                         *)
(* A dict is a function on its keys.  Argument values and the course key   *)
(* are opaque to the actions and are numbered.  What a script prints is    *)
(* left out of the results; its return code is kept.                       *)
(***************************************************************************)

MaxArgValue == 2
MaxActionKeys == 2

PrepareArgNames ==
    <<"attachment_pull", "attachment_unzip", "unzip", "charset", "cp_exercises", "cp", "mv">>
GitcloneArgNames == <<"repo_dir", "read", "files">>
ExpacaArgNames == <<"rule_file", "model_dir", "user_dir">>

CourseKey == 0
ArgValues == 1..MaxArgValue

\* the action configurations an invocation may be given: a few of the keys
\* the three script actions read, each with a value
ConfigKeys == {"unzip", "repo_dir", "rule_file"}

ActionConfigs ==
    UNION {[K -> ArgValues] : K \in {S \in SUBSET ConfigKeys : Cardinality(S) <= MaxActionKeys}}

ReturnCodes == {0, 1}

\* for name in arg_names: if name in action: args[name] = action[name]
RECURSIVE _collect_args(_, _, _)
_collect_args(arg_names, action, args) ==
    IF arg_names = <<>> THEN args
    ELSE LET name == Head(arg_names)
         IN  _collect_args(Tail(arg_names), action,
                 IF name \in DOMAIN action THEN DictSet(args, name, action[name]) ELSE args)

_boolean(result) == [stop |-> result.code # 0]

\* prepare passes a dict of its own, built at the call
prepare(action, code) ==
    /\ call' = [fn |-> "prepare", action |-> action,
                args |-> _collect_args(PrepareArgNames, action,
                                       DictSet(EmptyDict, "course_key", CourseKey)),
                raised |-> "", result |-> _boolean([code |-> code])]
    /\ UNCHANGED default_args

\* gitclone and expaca pass no dict: _collect_args fills and returns the
\* dict object that is its parameter's default value
gitclone(action, code) ==
    LET args == _collect_args(GitcloneArgNames, action, default_args)
    IN  /\ default_args' = args
        /\ call' = [fn |-> "gitclone", action |-> action, args |-> args,
                    raised |-> "", result |-> _boolean([code |-> code])]

expaca(action, code) ==
    LET args == _collect_args(ExpacaArgNames, action, default_args)
    IN  /\ default_args' = args
        /\ call' = [fn |-> "expaca", action |-> action, args |-> args,
                    raised |-> IF code # 0 THEN "ConfigError" ELSE "",
                    result |-> [stop |-> FALSE]]

(***************************************************************************)
(* grader/actions.py: gitlabquery                                          *)
(*                                                                         *)
(* ex and action are the two configurations; world is what the try block   *)
(* meets: the gitsource file, and the answer of get_json.  A message is    *)
(* the sequence of its pieces, the empty message is <<>>.                  *)
(***************************************************************************)

Absent == "absent"

GitlabExercises == [require_gitlab : {Absent, "host"}]

GitlabActions ==
    [token : {Absent, "tok"}, private : {Absent, "False", "True"}, forks : {Absent, "orig/repo"}]

\* the JSON object of a project: "public", and "forked_from_project" with its
\* "path_with_namespace" when the project is a fork
GitlabData ==
    [public : {"False", "True"}, forked_from_project : {Absent, "orig/repo", "other/repo"}]

GitlabWorlds ==
    [source : {"unreadable", "no colon"}] \cup
    [source : {"ok"}, get_json : {"raises"}] \cup
    [source : {"ok"}, get_json : {"ok"}, data : GitlabData]

WebUrl == "web_url"

\* the try block; "raised" is an exception it met and swallowed
GitlabTry(action, world) ==
    IF world.source = "unreadable" THEN [err |-> <<>>, raised |-> "IOError"]
    ELSE IF world.source = "no colon" THEN [err |-> <<>>, raised |-> "ValueError"]
    ELSE IF world.get_json = "raises" THEN [err |-> <<>>, raised |-> "HTTPError"]
    ELSE
      LET data == world.data
          err1 == IF action.private = "True" /\ data.public = "True"
                  THEN <<WebUrl, " has public access in settings! Remove it to grade exercises.">>
                  ELSE <<>>
          err2 == IF action.forks # Absent
                     /\ (data.forked_from_project = Absent
                         \/ data.forked_from_project # action.forks)
                  THEN <<WebUrl, " is not forked from ", action.forks, ".">>
                  ELSE err1
      IN  [err |-> err2, raised |-> ""]

gitlabquery(ex, action, world) ==
    /\ call' =
        IF ex.require_gitlab = Absent \/ action.token = Absent
        THEN [fn |-> "gitlabquery", ex |-> ex, action |-> action, world |-> world,
              raised |-> "ConfigError", swallowed |-> "",
              result |-> [err |-> <<>>, stop |-> FALSE]]
        ELSE LET t == GitlabTry(action, world)
             IN  [fn |-> "gitlabquery", ex |-> ex, action |-> action, world |-> world,
                  raised |-> "", swallowed |-> t.raised,
                  result |-> [err |-> t.err, stop |-> t.err # <<>>]]
    /\ UNCHANGED default_args

(***************************************************************************)
(* The actions, invoked one after another by the workers of one process    *)
(***************************************************************************)

NoCall == [fn |-> "none"]
NoParse == [fn |-> "none"]

FormsIdle ==
    /\ schema = <<>>
    /\ gfields = <<>>
    /\ widget_ro = FALSE
    /\ forms = <<>>
    /\ req = [op |-> "none"]

InitActions ==
    /\ FormsIdle
    /\ default_args = EmptyDict
    /\ call = NoCall
    /\ parse = NoParse

NextActions ==
    \/ \E action \in ActionConfigs, code \in ReturnCodes :
          prepare(action, code) /\ UNCHANGED <<form_vars, parse>>
    \/ \E action \in ActionConfigs, code \in ReturnCodes :
          gitclone(action, code) /\ UNCHANGED <<form_vars, parse>>
    \/ \E action \in ActionConfigs, code \in ReturnCodes :
          expaca(action, code) /\ UNCHANGED <<form_vars, parse>>

SpecActions == InitActions /\ [][NextActions]_vars

\* the repository checks of gitlabquery, one after another
NextGitlab ==
    \/ \E ex \in GitlabExercises, action \in GitlabActions, world \in GitlabWorlds :
          gitlabquery(ex, action, world) /\ UNCHANGED <<form_vars, parse>>

SpecGitlab == InitActions /\ [][NextGitlab]_vars

\* C6: the argument map an action passes to its script holds only key/value
\* pairs of that invocation's own action configuration (and the course key
\* for prepare), never a key left behind by an earlier invocation.
C6_ArgsFromOwnConfigOnly ==
    call.fn \in {"prepare", "gitclone", "expaca"} =>
        \A k \in DOMAIN call.args :
            \/ k \in DOMAIN call.action /\ call.args[k] = call.action[k]
            \/ call.fn = "prepare" /\ k = "course_key" /\ call.args[k] = CourseKey

\* what gitlabquery's policies forbid, read off the configuration and the
\* project's data
GitlabPolicyViolated(action, world) ==
    /\ world.source = "ok"
    /\ world.get_json = "ok"
    /\ \/ action.private = "True" /\ world.data.public = "True"
       \/ action.forks # Absent /\ world.data.forked_from_project # action.forks

GitlabExternalFailed(world) ==
    world.source # "ok" \/ world.get_json # "ok"

\* C9: gitlabquery never raises, and every failure while it runs (the
\* external call fails, or a policy is violated) yields stop = true and a
\* non-empty error message.  Stated for the invocations whose configuration
\* holds require_gitlab and token, the ones that reach the check.
C9_GitlabFailureStops ==
    (call.fn = "gitlabquery" /\ call.ex.require_gitlab # Absent /\ call.action.token # Absent) =>
        /\ call.raised = ""
        /\ (GitlabExternalFailed(call.world) \/ GitlabPolicyViolated(call.action, call.world))
              => (call.result.stop /\ call.result.err # <<>>)

(***************************************************************************)
(* The parsers, each run on a text a script printed                        *)
(***************************************************************************)

MaxDiffLines == 3

DiffLineMenu ==
    { <<>>,
      <<"x">>,
      TestcasePrefix \o <<" ", "t">>,
      ExpectedPrefix \o <<" ", "x">>,
      ExpectedPrefix \o <<" ">>,
      ActualPrefix \o <<" ", "x">>,
      ActualPrefix \o <<" ", "y">>,
      ActualPrefix }

\* the texts of up to MaxDiffLines lines; the text of no line is the empty text
DiffInputs == {Join(ls, NL) : ls \in SeqsUpTo(DiffLineMenu, MaxDiffLines)}

\* a script has printed parse.output; the parser is run on it
ParseDifftests ==
    /\ parse.fn = "printed"
    /\ parse.output \in DiffInputs
    /\ parse' = [fn |-> "_parse_difftests", output |-> parse.output,
                 result |-> _parse_difftests(parse.output)]

InitParsers ==
    /\ FormsIdle
    /\ default_args = EmptyDict
    /\ call = NoCall
    /\ parse \in {[fn |-> "printed", output |-> output] : output \in DiffInputs}

NextParsers ==
    \/ ParseDifftests /\ UNCHANGED <<form_vars, action_vars>>

SpecParsers == InitParsers /\ [][NextParsers]_vars

\* C10: each record of the diff-block parser has fail = true exactly when
\* its expected text differs from its actual text.
C10_FailIffTextsDiffer ==
    parse.fn = "_parse_difftests" =>
        \A k \in 1..Len(parse.result) :
            parse.result[k].fail <=> (parse.result[k].expected # parse.result[k].actual)

(***************************************************************************)
(* grader/actions.py: _find_point_lines                                    *)
(*                                                                         *)
(* result is what a sandbox run returned: the text it printed, its error   *)
(* text and its return code.                                               *)
(***************************************************************************)

TotalPointsPrefix == <<"T", "o", "t", "a", "l", "P", "o", "i", "n", "t", "s", ":", " ">>
MaxPointsPrefix   == <<"M", "a", "x", "P", "o", "i", "n", "t", "s", ":", " ">>

\* a variant in which a point line that is no number stays in the output
ValueErrorKeepsLine(st, l) == [st EXCEPT !.lines = Append(@, l)]

\* except ValueError: pass
ValueErrorPass(st, l) == st

\* the body of the loop over result["out"].split("\n")
PointStep(st, l) ==
    IF StartsWith(l, TotalPointsPrefix) THEN
        IF IntOk(Drop(l, 13)) THEN [st EXCEPT !.points = IntVal(Drop(l, 13))]
        ELSE ValueErrorPass(st, l)
    ELSE IF StartsWith(l, MaxPointsPrefix) THEN
        IF IntOk(Drop(l, 11)) THEN [st EXCEPT !.max_points = IntVal(Drop(l, 11))]
        ELSE ValueErrorPass(st, l)
    ELSE [st EXCEPT !.lines = Append(@, l)]

RECURSIVE PointLoop(_, _)
PointLoop(ls, st) ==
    IF ls = <<>> THEN st
    ELSE Let1(PointStep(st, Head(ls)), LAMBDA st1 : PointLoop(Tail(ls), st1))

_find_point_lines(result) ==
    Let1(PointLoop(Split(result.out, NL), [lines |-> <<>>, points |-> 0, max_points |-> 0]),
         LAMBDA st : [points |-> st.points, max_points |-> st.max_points,
                      out |-> Join(st.lines, NL), err |-> result.err,
                      stop |-> result.code # 0])

MaxPointLines == 3

PointLineMenu ==
    { <<>>,
      <<"h">>,
      <<"w">>,
      TotalPointsPrefix \o <<"7">>,
      TotalPointsPrefix \o <<"1", "2">>,
      TotalPointsPrefix \o <<"x">>,
      TotalPointsPrefix,
      MaxPointsPrefix \o <<"1", "0">>,
      MaxPointsPrefix \o <<"-", "1">>,
      MaxPointsPrefix \o <<"y">>,
      <<"T", "o", "t", "a", "l", "P", "o", "i", "n", "t", "s", ":", "7">> }

\* the texts of up to MaxPointLines lines
PointOutputs == {Join(ls, NL) : ls \in SeqsUpTo(PointLineMenu, MaxPointLines)}

SandboxResults == [out : PointOutputs, err : {<<>>}, code : ReturnCodes]

\* a sandbox run has returned parse.result; the parser is run on it
FindPointLines ==
    /\ parse.fn = "returned"
    /\ parse.result \in SandboxResults
    /\ parse' = [fn |-> "_find_point_lines", given |-> parse.result,
                 result |-> _find_point_lines(parse.result)]

InitPointLines ==
    /\ FormsIdle
    /\ default_args = EmptyDict
    /\ call = NoCall
    /\ parse \in {[fn |-> "returned", result |-> r] : r \in SandboxResults}

NextPointLines ==
    \/ FindPointLines /\ UNCHANGED <<form_vars, action_vars>>

SpecPointLines == InitPointLines /\ [][NextPointLines]_vars

\* what is left of a line after a prefix it starts with
Remainder(l, prefix) == SubSeq(l, Len(prefix) + 1, Len(l))

\* the places of the lines that give a value for a prefix
ValueLines(ls, prefix) ==
    {k \in 1..Len(ls) : StartsWith(ls[k], prefix) /\ IntOk(Remainder(ls[k], prefix))}

LastValue(ls, prefix) ==
    IF ValueLines(ls, prefix) = {} THEN 0
    ELSE LET last == CHOOSE k \in ValueLines(ls, prefix) :
                        \A n \in ValueLines(ls, prefix) : n <= k
         IN  IntVal(Remainder(ls[last], prefix))

IsPointLine(l) == StartsWith(l, TotalPointsPrefix) \/ StartsWith(l, MaxPointsPrefix)

\* C11: the point-line parser returns as points and max_points the value of
\* the last "TotalPoints: " / "MaxPoints: " line whose remainder is an
\* integer, 0 when there is none; its output is the lines that have neither
\* prefix, unchanged and in their order, every line with a prefix being
\* removed whether its remainder is a number or not.
C11_PointLines ==
    parse.fn = "_find_point_lines" =>
        LET ls == Split(parse.given.out, NL)
        IN  /\ parse.result.points = LastValue(ls, TotalPointsPrefix)
            /\ parse.result.max_points = LastValue(ls, MaxPointsPrefix)
            /\ parse.result.out = Join(SelectSeq(ls, LAMBDA l : ~IsPointLine(l)), NL)

C11_Witness ==
    /\ parse.fn = "_find_point_lines"
    /\ parse.given.out =
          Join(<<TotalPointsPrefix \o <<"7">>, TotalPointsPrefix \o <<"x">>, <<"w">>>>, NL)
    /\ parse.result.points = 7
    /\ parse.result.out = <<"w">>

(***************************************************************************)
(* Where the grading of a table leaves its hints                           *)
(***************************************************************************)

\* what grading stored on the field instance of a name
GradedOf(fields, name) == fields[FieldAt(fields, name)].graded

\* C12: after a table with a failing row is graded, the hints of the table
\* are stored on the field instance of its first row and on that of no
\* other row, however many rows the table has.
C12_TableHintsOnFirstSlot ==
    (req.op = "grade" /\ req.outcome = "ok" /\ req.walked = req.form.own) =>
        \A k \in 1..Len(req.log) :
            LET e == req.log[k]
            IN  (IsTable(ConfigAt(e.g, e.idx)) /\ ~e.ok) =>
                    /\ "hints" \in DOMAIN GradedOf(req.fields, e.names[1])
                    /\ \A r \in 2..Len(e.names) :
                          "hints" \notin DOMAIN GradedOf(req.fields, e.names[r])

====
